---- MODULE Spec2Model ----
(***************************************************************************)
(* Model of main.py: an interactive command-line program that checks for   *)
(* ffmpeg, reads an input source and a media-kind selector, and then, for  *)
(* every resolved URL in turn, runs yt-dlp, parses the destination path    *)
(* out of its standard output and runs ffmpeg to strip the metadata.       *)
(*                                                                         *)
(* The two external tools and the file system are the environment: each    *)
(* child process is spawned (which raises FileNotFoundError when the       *)
(* executable cannot be located), is in flight while the program blocks    *)
(* in subprocess.run, and exits with a status the environment chooses.     *)
(*                                                                         *)
(* Strings are sequences of tokens.  A token is one character, except      *)
(* "h" = the text "http", "t" = ".txt", "T" = ".TXT" and                   *)
(* "D" = the text "[download] Destination: ".  " " is any whitespace       *)
(* character (str.strip() removes all of them alike).                      *)
(***************************************************************************)
EXTENDS Integers, Sequences, FiniteSets, TLC

VARIABLES
    pc,               \* position of the program
    exitCode,         \* process exit status; Running until the process ends
    uncaught,         \* the exception that ended the process with a traceback
    printed,          \* what print() has written, in order: <<kind, url index>>
    lastLog,          \* the most recent logging record: <<level, what>>
    linesRead,        \* how many lines have been read from stdin
    ffmpegCheck,      \* what check_ffmpeg() did: "pending", "true", "false", "raised"
    input_str,        \* process_input's parameter, while it runs
    file,             \* the open list file's lines, while process_input reads it
    urls_to_process,  \* the resolved URLs
    audio_only,       \* the media kind
    cur,              \* 1-based index of the URL the loop is at (0 before the loop)
    running,          \* child processes in flight: <<tool, url index>>
    started,          \* URL indexes for which yt-dlp was spawned, in spawn order
    returned,         \* URL indexes whose download_youtube_media call returned
    fetchLog,         \* exit status of each yt-dlp run that exited, by spawn order
    stdout,           \* result.stdout of the current yt-dlp run, until it is parsed
    final_file_path,  \* the path parsed from stdout, while the call runs
    fileState,        \* content of the file at final_file_path
    tmpState,         \* content of the file at stripped_file_path
    fsAtCall,         \* <<fileState, tmpState>> when strip_metadata was called
    stripRc,          \* the current strip's ffmpeg: "notrun", "notfound", "zero", "nonzero"
    stripCalls,       \* URL indexes for which strip_metadata was called
    ffmpegQuery,      \* the version query: "pending", "absent", "zero", "nonzero"
    stdinLine,        \* the selector line readline() returned, until it is normalised
    media_choice_input,  \* the normalised selector
    notFound          \* tools whose spawn raised FileNotFoundError

vars == <<pc, exitCode, uncaught, printed, lastLog, linesRead, ffmpegCheck,
          input_str, file, urls_to_process, audio_only, cur, running, started,
          returned, fetchLog, stdout, final_file_path, fileState, tmpState,
          fsAtCall, stripRc, stripCalls, ffmpegQuery, stdinLine,
          media_choice_input, notFound>>

----------------------------------------------------------------------------
(* Bounds of the model *)

MaxInputLen == 2     \* tokens in the input-source line
MaxSelLen == 2       \* characters in the selector line
MaxRawLen == 2       \* characters in a line of the list file
MaxFileLines == 2    \* lines in the list file
MaxOutLines == 2     \* lines in yt-dlp's standard output

Running == <<>>      \* exitCode of a process that has not ended
None == <<"None">>   \* Python's None, where a string is expected
NoLines == <<None>>  \* no text at hand, where a sequence of lines is expected

SeqsUpTo(S, n) == UNION {[1..k -> S] : k \in 0..n}

InputTokens == {" ", "h", "t", "T"}
SelChars == {" ", "V", "v", "A", "a", "x"}
FileChars == {" ", "u"}
InputLines == SeqsUpTo(InputTokens, MaxInputLen)
SelLines == SeqsUpTo(SelChars, MaxSelLen)
RawLines == SeqsUpTo(FileChars, MaxRawLen)
ListFiles == SeqsUpTo(RawLines, MaxFileLines)

\* Lines yt-dlp may print: blank, other text, the marker with nothing after
\* it, the marker followed by a path, the marker in the middle of a line,
\* and a path that itself contains the marker text.
OutLines == {<<>>, <<"x">>, <<"D">>, <<"D", "a">>, <<"D", "b">>,
             <<"x", "D", "a">>, <<"D", "a", "D", "b">>}
Stdouts == SeqsUpTo(OutLines, MaxOutLines)

----------------------------------------------------------------------------
(* str methods *)

IsSpace(c) == c = " "

RECURSIVE LStrip(_)
LStrip(s) == IF s # <<>> /\ IsSpace(Head(s)) THEN LStrip(Tail(s)) ELSE s

RECURSIVE RStrip(_)
RStrip(s) ==
    IF s # <<>> /\ IsSpace(s[Len(s)]) THEN RStrip(SubSeq(s, 1, Len(s) - 1)) ELSE s

\* str.strip()
Strip(s) == RStrip(LStrip(s))

LowerChar(c) ==
    CASE c = "T" -> "t"
      [] c = "V" -> "v"
      [] c = "A" -> "a"
      [] OTHER -> c

\* str.lower()
Lower(s) == [i \in 1..Len(s) |-> LowerChar(s[i])]

\* input_str.startswith("http")
StartsWithHttp(s) == s # <<>> /\ s[1] = "h"

\* input_str.lower().endswith(".txt")
EndsWithTxt(s) == s # <<>> /\ Lower(s)[Len(s)] = "t"

----------------------------------------------------------------------------
(* Exceptions and the handlers around them *)

NoExc == "none"

\* subprocess.run(..., check=True) on a child that exited with status rc
CheckedRun(rc) == IF rc = "zero" THEN NoExc ELSE "CalledProcessError"

\* check_ffmpeg: except subprocess.CalledProcessError
CheckFfmpegCatches(e) == e = "CalledProcessError"

DownloadNeverCatches(e) == FALSE

\* download_youtube_media: except subprocess.CalledProcessError
DownloadCatches(e) == e = "CalledProcessError"

StripNeverCatches(e) == FALSE

\* strip_metadata: except FileNotFoundError / except Exception
StripCatches(e) == e \in {"FileNotFoundError", "CalledProcessError", "OSError"}

CheckFfmpegAlwaysTrue(e) == "true"

\* check_ffmpeg's outcome when its subprocess.run raised e (NoExc: returned)
CheckFfmpeg(e) ==
    IF e = NoExc THEN "true"
    ELSE IF CheckFfmpegCatches(e) THEN "false"
    ELSE "raised"

----------------------------------------------------------------------------
(* process_input *)

RECURSIVE ReadUrlsUnfiltered(_)
ReadUrlsUnfiltered(lines) ==
    IF lines = <<>> THEN <<>>
    ELSE IF Head(lines) # <<>>
         THEN <<Strip(Head(lines))>> \o ReadUrlsUnfiltered(Tail(lines))
         ELSE ReadUrlsUnfiltered(Tail(lines))

\* [line.strip() for line in file if line.strip()], one line at a time
RECURSIVE ReadUrls(_)
ReadUrls(lines) ==
    IF lines = <<>> THEN <<>>
    ELSE IF Strip(Head(lines)) # <<>>
         THEN <<Strip(Head(lines))>> \o ReadUrls(Tail(lines))
         ELSE ReadUrls(Tail(lines))

\* which branch of process_input the input takes
Classify(s) ==
    IF StartsWithHttp(s) THEN "url"
    ELSE IF EndsWithTxt(s) THEN "list"
    ELSE "unknown"

----------------------------------------------------------------------------
(* the media-kind selector *)

ChoiceDefaultsToVideo(c) == IF c = <<"a">> THEN "audio" ELSE "video"

\* the if / elif / else on media_choice_input
ChoiceOf(c) ==
    IF c = <<"a">> THEN "audio"
    ELSE IF c = <<"v">> THEN "video"
    ELSE "invalid"

----------------------------------------------------------------------------
(* re.search(r"\[download\] Destination: (.+)", result.stdout) *)

\* The leftmost match that starts at or after position k of a line: the
\* marker followed by at least one character; "." does not match a newline
\* and "+" is greedy, so group 1 is the rest of the line.
RECURSIVE MatchInLine(_, _)
MatchInLine(line, k) ==
    IF k > Len(line) THEN None
    ELSE IF line[k] = "D" /\ k < Len(line) THEN SubSeq(line, k + 1, Len(line))
    ELSE MatchInLine(line, k + 1)

\* the first match in the text from line i on: group(1), or None
RECURSIVE SearchFrom(_, _)
SearchFrom(out, i) ==
    IF i > Len(out) THEN None
    ELSE IF MatchInLine(out[i], 1) # None THEN MatchInLine(out[i], 1)
    ELSE SearchFrom(out, i + 1)

RECURSIVE SearchLastFrom(_, _)
SearchLastFrom(out, i) ==
    IF i < 1 THEN None
    ELSE IF MatchInLine(out[i], 1) # None THEN MatchInLine(out[i], 1)
    ELSE SearchLastFrom(out, i - 1)

ReSearchLast(out) == SearchLastFrom(out, Len(out))

ReSearch(out) == SearchFrom(out, 1)

----------------------------------------------------------------------------
(* strip_metadata after ffmpeg has exited: lines 100-112 *)

\* os.replace(stripped_file_path, file_path) on a file system where the file
\* holds f and the temporary file holds t
OsReplace(f, t) ==
    IF t = "absent"
    THEN [file |-> f, tmp |-> t, exc |-> "FileNotFoundError"]
    ELSE [file |-> t, tmp |-> "absent", exc |-> NoExc]

ReplaceOnlyOnSuccess(rc, f, t) ==
    IF rc = "zero"
    THEN [fs |-> OsReplace(f, t), log |-> <<"INFO", "stripped">>]
    ELSE [fs |-> [file |-> f, tmp |-> t, exc |-> NoExc],
          log |-> <<"WARNING", "ffmpeg issue">>]

\* what the if / else on result.returncode does, and the last record it logs
\* when nothing is raised
AfterFfmpeg(rc, f, t) ==
    IF rc = "zero"
    THEN [fs |-> OsReplace(f, t), log |-> <<"INFO", "stripped">>]
    ELSE [fs |-> IF t # "absent" THEN OsReplace(f, t)
                 ELSE [file |-> f, tmp |-> t, exc |-> NoExc],
          log |-> <<"WARNING", "ffmpeg issue">>]

----------------------------------------------------------------------------
(* the batch loop *)

SkipOne(i) == i + 2

\* for url in urls_to_process: the index after i
NextIndex(i) == i + 1

----------------------------------------------------------------------------
(* State changes shared by the actions *)

Emit(kind, i) == printed' = Append(printed, <<kind, i>>)

\* sys.exit(code), or falling off the end of the script (code 0)
SysExit(code) ==
    /\ pc' = "terminated"
    /\ exitCode' = <<code>>
    /\ UNCHANGED uncaught

\* an exception nothing catches: traceback, exit status 1
Traceback(e) ==
    /\ pc' = "terminated"
    /\ exitCode' = <<1>>
    /\ uncaught' = e

Goto(p) ==
    /\ pc' = p
    /\ UNCHANGED <<exitCode, uncaught>>

inputVars == <<input_str, file, urls_to_process, stdinLine, media_choice_input,
               audio_only>>
preflightVars == <<ffmpegCheck, ffmpegQuery>>
loopVars == <<cur, started, returned, fetchLog, stripCalls>>
callVars == <<stdout, final_file_path, fileState, tmpState, fsAtCall, stripRc>>

Init ==
    /\ pc = "start"
    /\ exitCode = Running
    /\ uncaught = NoExc
    /\ printed = <<>>
    /\ lastLog = <<"NONE", "nothing logged">>
    /\ linesRead = 0
    /\ ffmpegCheck = "pending"
    /\ ffmpegQuery = "pending"
    /\ input_str = None
    /\ file = NoLines
    /\ urls_to_process = <<>>
    /\ stdinLine = None
    /\ media_choice_input = None
    /\ audio_only = FALSE
    /\ cur = 0
    /\ running = {}
    /\ started = <<>>
    /\ returned = {}
    /\ fetchLog = <<>>
    /\ stdout = NoLines
    /\ final_file_path = None
    /\ fileState = "n/a"
    /\ tmpState = "n/a"
    /\ fsAtCall = <<"n/a", "n/a">>
    /\ stripRc = "notrun"
    /\ stripCalls = {}
    /\ notFound = {}

----------------------------------------------------------------------------
(* __main__, lines 225-236: the preflight *)

\* what __main__ does with check_ffmpeg's outcome, e being the exception
\* check_ffmpeg let through when the outcome is "raised"
MainAfterCheck(outcome, e) ==
    /\ ffmpegCheck' = outcome
    /\ IF outcome = "raised" THEN
          /\ Traceback(e)
          /\ UNCHANGED printed
       ELSE IF outcome = "false" THEN
          /\ Emit("Error: FFmpeg not installed", 0)
          /\ SysExit(1)
       ELSE
          /\ Emit("Enter the video URL or path", 0)
          /\ Goto("read_input")

\* check_ffmpeg spawns "ffmpeg -version"
PreflightSpawn ==
    /\ pc = "start"
    /\ \E found \in BOOLEAN :
          IF found THEN
             /\ running' = running \cup {<<"ffmpeg", 0>>}
             /\ Goto("preflight_wait")
             /\ UNCHANGED <<printed, preflightVars, notFound>>
          ELSE
             /\ ffmpegQuery' = "absent"
             /\ notFound' = notFound \cup {"ffmpeg"}
             /\ MainAfterCheck(CheckFfmpeg("FileNotFoundError"), "FileNotFoundError")
             /\ UNCHANGED running
    /\ UNCHANGED <<lastLog, linesRead, inputVars, loopVars, callVars>>

\* the version query exits; check_ffmpeg returns or raises
PreflightExit ==
    /\ pc = "preflight_wait"
    /\ \E rc \in {"zero", "nonzero"} :
          /\ ffmpegQuery' = rc
          /\ MainAfterCheck(CheckFfmpeg(CheckedRun(rc)), CheckedRun(rc))
    /\ running' = running \ {<<"ffmpeg", 0>>}
    /\ UNCHANGED <<lastLog, linesRead, inputVars, loopVars, callVars, notFound>>

----------------------------------------------------------------------------
(* __main__, lines 237-252, and process_input *)

\* user_input = sys.stdin.readline().strip(); process_input is entered
ReadInput ==
    /\ pc = "read_input"
    /\ \E line \in InputLines : input_str' = Strip(line)
    /\ linesRead' = linesRead + 1
    /\ Goto("process_input")
    /\ UNCHANGED <<printed, lastLog, preflightVars, file, urls_to_process,
                   stdinLine, media_choice_input, audio_only, running,
                   loopVars, callVars, notFound>>

\* process_input's if / elif / else
ProcessInput ==
    /\ pc = "process_input"
    /\ CASE Classify(input_str) = "url" ->
              /\ urls_to_process' = <<input_str>>
              /\ input_str' = None
              /\ Emit("Do you want (V)ideo or (A)udio", 0)
              /\ Goto("read_choice")
         [] Classify(input_str) = "list" ->
              /\ Goto("open_list")
              /\ UNCHANGED <<urls_to_process, input_str, printed>>
         [] OTHER ->
              /\ Emit("Error: Unknown input format", 0)
              /\ SysExit(1)
              /\ UNCHANGED <<urls_to_process, input_str>>
    /\ UNCHANGED <<lastLog, linesRead, preflightVars, file, stdinLine,
                   media_choice_input, audio_only, running, loopVars, callVars,
                   notFound>>

\* open(input_str, "r"): the file exists with some content, or does not
OpenList ==
    /\ pc = "open_list"
    /\ \/ /\ \E content \in ListFiles : file' = content
          /\ Goto("read_list")
       \/ /\ Traceback("FileNotFoundError")
          /\ UNCHANGED file
    /\ UNCHANGED <<printed, lastLog, linesRead, preflightVars, input_str,
                   urls_to_process, stdinLine, media_choice_input, audio_only,
                   running, loopVars, callVars, notFound>>

\* the comprehension over the open file; urls_to_process holds its result
\* (process_input's local urls) from here on
ReadList ==
    /\ pc = "read_list"
    /\ urls_to_process' = ReadUrls(file)
    /\ Goto("check_list")
    /\ UNCHANGED <<printed, lastLog, linesRead, preflightVars, input_str, file,
                   stdinLine, media_choice_input, audio_only, running,
                   loopVars, callVars, notFound>>

\* if not urls: exit; else the with block is left and the list returned
CheckList ==
    /\ pc = "check_list"
    /\ IF urls_to_process = <<>> THEN
          /\ Emit("Error: The .txt file does not contain valid URLs", 0)
          /\ SysExit(1)
          /\ UNCHANGED <<file, input_str>>
       ELSE
          /\ file' = NoLines
          /\ input_str' = None
          /\ Emit("Do you want (V)ideo or (A)udio", 0)
          /\ Goto("read_choice")
    /\ UNCHANGED <<lastLog, linesRead, preflightVars, urls_to_process,
                   stdinLine, media_choice_input, audio_only, running,
                   loopVars, callVars, notFound>>

\* sys.stdin.readline() for the selector
ReadChoice ==
    /\ pc = "read_choice"
    /\ \E line \in SelLines : stdinLine' = line
    /\ linesRead' = linesRead + 1
    /\ Goto("check_choice")
    /\ UNCHANGED <<printed, lastLog, preflightVars, input_str, file,
                   urls_to_process, media_choice_input, audio_only, running,
                   loopVars, callVars, notFound>>

\* .strip().lower() and the if / elif / else on the selector
CheckChoice ==
    /\ pc = "check_choice"
    /\ media_choice_input' = Lower(Strip(stdinLine))
    /\ stdinLine' = None
    /\ CASE ChoiceOf(Lower(Strip(stdinLine))) = "audio" ->
              /\ audio_only' = TRUE
              /\ Goto("loop")
              /\ UNCHANGED printed
         [] ChoiceOf(Lower(Strip(stdinLine))) = "video" ->
              /\ audio_only' = FALSE
              /\ Goto("loop")
              /\ UNCHANGED printed
         [] OTHER ->
              /\ Emit("Invalid choice", 0)
              /\ SysExit(1)
              /\ UNCHANGED audio_only
    /\ UNCHANGED <<lastLog, linesRead, preflightVars, input_str, file,
                   urls_to_process, running, loopVars, callVars, notFound>>

----------------------------------------------------------------------------
(* __main__, lines 257-259: the loop over the URLs *)

\* the for statement: the next URL, or the end of the script
Loop ==
    /\ pc = "loop"
    /\ IF NextIndex(cur) <= Len(urls_to_process) THEN
          /\ cur' = NextIndex(cur)
          /\ Goto("dl_mkdir")
       ELSE
          /\ SysExit(0)
          /\ UNCHANGED cur
    /\ UNCHANGED <<printed, lastLog, linesRead, preflightVars, inputVars,
                   running, started, returned, fetchLog, stripCalls, callVars,
                   notFound>>

----------------------------------------------------------------------------
(* download_youtube_media *)

\* an exception e raised in the try block of download_youtube_media
RaiseInDownload(e) ==
    IF DownloadCatches(e) THEN
       /\ lastLog' = <<"ERROR", "error while downloading">>
       /\ Emit("Error: Failed to download URL", cur)
       /\ Goto("dl_return")
    ELSE
       /\ Traceback(e)
       /\ UNCHANGED <<lastLog, printed>>

\* create_output_directory: os.makedirs succeeds or raises OSError
Mkdir ==
    /\ pc = "dl_mkdir"
    /\ \/ /\ lastLog' = <<"INFO", "downloading started">>
          /\ Goto("dl_spawn")
          /\ UNCHANGED printed
       \/ /\ Emit("Error creating output directory", cur)
          /\ SysExit(1)
          /\ UNCHANGED lastLog
    /\ UNCHANGED <<linesRead, preflightVars, inputVars, running, loopVars,
                   callVars, notFound>>

\* subprocess.run spawns yt-dlp, or raises FileNotFoundError
DownloadSpawn ==
    /\ pc = "dl_spawn"
    /\ \/ /\ running' = running \cup {<<"yt-dlp", cur>>}
          /\ started' = Append(started, cur)
          /\ Goto("dl_wait")
          /\ UNCHANGED <<lastLog, printed, notFound>>
       \/ /\ notFound' = notFound \cup {"yt-dlp"}
          /\ RaiseInDownload("FileNotFoundError")
          /\ UNCHANGED <<running, started>>
    /\ UNCHANGED <<linesRead, preflightVars, inputVars, cur, returned, fetchLog,
                   stripCalls, callVars>>

\* yt-dlp exits; check=True raises on a non-zero status
DownloadExit ==
    /\ pc = "dl_wait"
    /\ running' = running \ {<<"yt-dlp", cur>>}
    /\ \E rc \in {"zero", "nonzero"}, out \in Stdouts :
          /\ fetchLog' = Append(fetchLog, rc)
          /\ IF CheckedRun(rc) = NoExc THEN
                /\ stdout' = out
                /\ lastLog' = <<"INFO", "yt-dlp stderr">>
                /\ Goto("dl_parse")
                /\ UNCHANGED printed
             ELSE
                /\ RaiseInDownload(CheckedRun(rc))
                /\ UNCHANGED stdout
    /\ UNCHANGED <<linesRead, preflightVars, inputVars, cur, started, returned,
                   stripCalls, final_file_path, fileState, tmpState, fsAtCall,
                   stripRc, notFound>>

\* re.search on the captured output; on a match strip_metadata is called, and
\* the files at the two paths it works on are whatever the environment left
ParseOutput ==
    /\ pc = "dl_parse"
    /\ stdout' = NoLines
    /\ IF ReSearch(stdout) # None THEN
          /\ final_file_path' = ReSearch(stdout)
          /\ lastLog' = <<"INFO", "download completed">>
          /\ stripCalls' = stripCalls \cup {cur}
          /\ \E f \in {"absent", "media"}, t \in {"absent", "stale"} :
                /\ fileState' = f
                /\ tmpState' = t
                /\ fsAtCall' = <<f, t>>
          /\ Goto("strip_spawn")
          /\ UNCHANGED printed
       ELSE
          /\ Emit("Failed to locate the final file for URL", cur)
          /\ lastLog' = <<"WARNING", "could not locate final file">>
          /\ Goto("dl_return")
          /\ UNCHANGED <<final_file_path, stripCalls, fileState, tmpState,
                         fsAtCall>>
    /\ UNCHANGED <<linesRead, preflightVars, inputVars, running, cur, started,
                   returned, fetchLog, stripRc, notFound>>

\* an exception e raised in the try block of strip_metadata
RaiseInStrip(e) ==
    IF StripCatches(e) THEN
       /\ lastLog' = IF e = "FileNotFoundError"
                     THEN <<"ERROR", "file not found for metadata stripping">>
                     ELSE <<"ERROR", "error stripping metadata">>
       /\ Goto("strip_returned")
       /\ UNCHANGED printed
    ELSE RaiseInDownload(e)

\* strip_metadata: subprocess.run spawns ffmpeg, or raises FileNotFoundError
StripSpawn ==
    /\ pc = "strip_spawn"
    /\ \/ /\ running' = running \cup {<<"ffmpeg", cur>>}
          /\ Goto("strip_wait")
          /\ UNCHANGED <<lastLog, printed, notFound, stripRc>>
       \/ /\ notFound' = notFound \cup {"ffmpeg"}
          /\ stripRc' = "notfound"
          /\ RaiseInStrip("FileNotFoundError")
          /\ UNCHANGED running
    /\ UNCHANGED <<linesRead, preflightVars, inputVars, loopVars, stdout,
                   final_file_path, fileState, tmpState, fsAtCall>>

\* ffmpeg exits.  Without its input file it fails and writes nothing; with
\* it, it exits zero having written the stripped copy, or exits non-zero
\* having written nothing, a partial copy or the whole copy.
FfmpegExit ==
    /\ pc = "strip_wait"
    /\ running' = running \ {<<"ffmpeg", cur>>}
    /\ IF fileState = "absent" THEN
          /\ stripRc' = "nonzero"
          /\ UNCHANGED tmpState
       ELSE
          \/ /\ stripRc' = "zero"
             /\ tmpState' = "stripped"
          \/ /\ stripRc' = "nonzero"
             /\ tmpState' \in {tmpState, "partial", "stripped"}
    /\ Goto("strip_check")
    /\ UNCHANGED <<printed, lastLog, linesRead, preflightVars, inputVars,
                   loopVars, stdout, final_file_path, fileState, fsAtCall,
                   notFound>>

\* strip_metadata, lines 100-117: replace the original, log, return
StripCheck ==
    /\ pc = "strip_check"
    /\ fileState' = AfterFfmpeg(stripRc, fileState, tmpState).fs.file
    /\ tmpState' = AfterFfmpeg(stripRc, fileState, tmpState).fs.tmp
    /\ IF AfterFfmpeg(stripRc, fileState, tmpState).fs.exc = NoExc THEN
          /\ lastLog' = AfterFfmpeg(stripRc, fileState, tmpState).log
          /\ Goto("strip_returned")
          /\ UNCHANGED printed
       ELSE
          RaiseInStrip(AfterFfmpeg(stripRc, fileState, tmpState).fs.exc)
    /\ UNCHANGED <<linesRead, preflightVars, inputVars, running, loopVars,
                   stdout, final_file_path, fsAtCall, stripRc, notFound>>

\* back in download_youtube_media: the success message
StripReturned ==
    /\ pc = "strip_returned"
    /\ Emit("Media downloaded and metadata stripped successfully", cur)
    /\ Goto("dl_return")
    /\ UNCHANGED <<lastLog, linesRead, preflightVars, inputVars, running,
                   loopVars, callVars, notFound>>

\* download_youtube_media returns; its locals are gone
DownloadReturn ==
    /\ pc = "dl_return"
    /\ returned' = returned \cup {cur}
    /\ stdout' = NoLines
    /\ final_file_path' = None
    /\ fileState' = "n/a"
    /\ tmpState' = "n/a"
    /\ fsAtCall' = <<"n/a", "n/a">>
    /\ stripRc' = "notrun"
    /\ Goto("loop")
    /\ UNCHANGED <<printed, lastLog, linesRead, preflightVars, inputVars,
                   running, cur, started, fetchLog, stripCalls, notFound>>

----------------------------------------------------------------------------

Next ==
    \/ PreflightSpawn
    \/ PreflightExit
    \/ ReadInput
    \/ ProcessInput
    \/ OpenList
    \/ ReadList
    \/ CheckList
    \/ ReadChoice
    \/ CheckChoice
    \/ Loop
    \/ Mkdir
    \/ DownloadSpawn
    \/ DownloadExit
    \/ ParseOutput
    \/ StripSpawn
    \/ FfmpegExit
    \/ StripCheck
    \/ StripReturned
    \/ DownloadReturn

Spec == Init /\ [][Next]_vars

----------------------------------------------------------------------------
(* Vocabulary of the properties *)

Printed(kind, i) == \E k \in 1..Len(printed) : printed[k] = <<kind, i>>

Prompted ==
    \/ Printed("Enter the video URL or path", 0)
    \/ Printed("Do you want (V)ideo or (A)udio", 0)

Success == "Media downloaded and metadata stripped successfully"
FailedDownload == "Error: Failed to download URL"
FailedLocate == "Failed to locate the final file for URL"
Outcomes == {Success, FailedDownload, FailedLocate}

\* how many outcome messages name URL i
OutcomeCount(i) ==
    Cardinality({k \in 1..Len(printed) :
                    printed[k][2] = i /\ printed[k][1] \in Outcomes})

\* the exit status of the yt-dlp run for URL i, once it has exited
FetchStatus(i) ==
    IF \E k \in 1..Len(fetchLog) : started[k] = i
    THEN fetchLog[CHOOSE k \in 1..Len(fetchLog) : started[k] = i]
    ELSE "none"

\* the call of download_youtube_media for URL i is over
CallOver(i) == i \in returned \/ (cur = i /\ pc \in {"dl_return", "terminated"})

\* the run was ended by a startup-class error in the loop: the output
\* directory could not be created, or yt-dlp could not be located
FatalInLoop ==
    \/ "yt-dlp" \in notFound
    \/ \E i \in 1..Len(urls_to_process) : Printed("Error creating output directory", i)

\* s is l with its surrounding whitespace removed
IsStripOf(s, l) ==
    \E a, b \in 0..Len(l) :
        /\ a + Len(s) + b = Len(l)
        /\ \A i \in 1..a : IsSpace(l[i])
        /\ \A i \in 1..b : IsSpace(l[Len(l) - b + i])
        /\ \A i \in 1..Len(s) : s[i] = l[a + i]
        /\ s # <<>> => ~IsSpace(s[1]) /\ ~IsSpace(s[Len(s)])

----------------------------------------------------------------------------
(* C1: in a batch, a URL whose yt-dlp run exits non-zero is reported as    *)
(* failed and its call returns normally; and a run that no directory       *)
(* error or missing downloader cut short ends with exit status 0 after     *)
(* every URL was fetched, and stripped when its destination was found.     *)
C1_FailureIsolated ==
    /\ \A i \in 1..Len(urls_to_process) :
          (FetchStatus(i) = "nonzero") =>
             /\ Printed(FailedDownload, i)
             /\ CallOver(i)
             /\ i \in returned \/ pc = "dl_return"
    /\ (pc = "terminated" /\ cur >= 1 /\ ~FatalInLoop) =>
          /\ exitCode = <<0>>
          /\ \A i \in 1..Len(urls_to_process) :
                /\ i \in returned
                /\ FetchStatus(i) # "none"
                /\ FetchStatus(i) = "zero" =>
                      i \in stripCalls \/ Printed(FailedLocate, i)

\* the first URL failed, the second was fetched and stripped, exit status 0
C1_Witness ==
    /\ pc = "terminated"
    /\ exitCode = <<0>>
    /\ Len(urls_to_process) = 2
    /\ FetchStatus(1) = "nonzero"
    /\ FetchStatus(2) = "zero"
    /\ 2 \in stripCalls
    /\ Printed(Success, 2)

----------------------------------------------------------------------------
----------------------------------------------------------------------------
(* C3: check_ffmpeg returns true when the version query exits zero, and    *)
(* returns false, without raising, when it exits non-zero and when ffmpeg  *)
(* cannot be located.                                                      *)
C3_Claim ==
    /\ ffmpegQuery = "zero" => ffmpegCheck = "true"
    /\ ffmpegQuery \in {"nonzero", "absent"} => ffmpegCheck = "false"

----------------------------------------------------------------------------
(* C4: the URLs are processed in sequence order, one at a time: yt-dlp is  *)
(* spawned for the URLs in index order without gaps, a child process of    *)
(* URL i is in flight only when the calls for all URLs before i have       *)
(* returned, and at most one child process is in flight at any time.       *)
C4_Sequential ==
    /\ Cardinality(running) <= 1
    /\ \A k \in 1..Len(started) : started[k] = k
    /\ \A k \in 1..Len(started) : \A j \in 1..(started[k] - 1) : j \in returned
    /\ \A r \in running :
          /\ r[2] = cur
          /\ r[2] \notin returned
          /\ \A j \in 1..(r[2] - 1) : j \in returned
    /\ \A i \in stripCalls : FetchStatus(i) = "zero"

\* ffmpeg runs for the second URL after the first URL's call has returned
C4_Witness ==
    /\ running = {<<"ffmpeg", 2>>}
    /\ started = <<1, 2>>
    /\ 1 \in returned
    /\ 1 \in stripCalls

----------------------------------------------------------------------------
(* C5: after a yt-dlp run that exited zero, strip_metadata is called       *)
(* exactly when the captured output has a line holding the marker          *)
(* "[download] Destination: " followed by at least one character, and      *)
(* then on the path the first such line gives (the rest of the line after  *)
(* its first marker); with no such line the user is told the file could    *)
(* not be located, nothing is raised, strip_metadata is not called and     *)
(* the call returns to the loop.  strip_metadata is called nowhere else.   *)

\* line l announces a destination: the marker, then a non-empty path
IsDestinationLine(l) == \E k \in 1..(Len(l) - 1) : l[k] = "D"

\* the path a destination line announces
PathOfLine(l) ==
    LET k == CHOOSE k \in 1..(Len(l) - 1) :
                 l[k] = "D" /\ \A j \in 1..(k - 1) : l[j] # "D"
    IN  SubSeq(l, k + 1, Len(l))

HasDestinationLine(out) == \E i \in 1..Len(out) : IsDestinationLine(out[i])

FirstDestinationPath(out) ==
    LET i == CHOOSE i \in 1..Len(out) :
                 IsDestinationLine(out[i])
                 /\ \A j \in 1..(i - 1) : ~IsDestinationLine(out[j])
    IN  PathOfLine(out[i])

\* C5: the parse step calls strip_metadata exactly on a destination line,
\* with the first such line's path; otherwise it reports and returns
C5_StripOnFirstDestination ==
    [][ /\ pc = "dl_parse" =>
              /\ fetchLog[Len(fetchLog)] = "zero"
              /\ IF HasDestinationLine(stdout) THEN
                    /\ cur \notin stripCalls
                    /\ stripCalls' = stripCalls \cup {cur}
                    /\ final_file_path' = FirstDestinationPath(stdout)
                    /\ pc' = "strip_spawn"
                    /\ printed' = printed
                 ELSE
                    /\ stripCalls' = stripCalls
                    /\ printed' = Append(printed, <<FailedLocate, cur>>)
                    /\ pc' = "dl_return"
                    /\ uncaught' = NoExc
                    /\ exitCode' = Running
        /\ pc = "dl_return" => pc' = "loop" /\ cur \in returned'
        /\ stripCalls' # stripCalls => pc = "dl_parse"
        /\ pc' = "strip_spawn" => pc = "dl_parse"
        /\ final_file_path' # final_file_path =>
              pc = "dl_parse" \/ final_file_path' = None
      ]_vars

\* strip_metadata was called on the path of a line whose path itself
\* contains the marker text
C5_Witness ==
    /\ pc = "strip_spawn"
    /\ cur \in stripCalls
    /\ final_file_path = <<"a", "D", "b">>

\* the destination could not be located, and the loop goes on
C5_WitnessNoLine ==
    /\ pc = "dl_mkdir"
    /\ cur = 2
    /\ Printed(FailedLocate, 1)
    /\ 1 \notin stripCalls

----------------------------------------------------------------------------
(* C6: in strip_metadata, once ffmpeg has exited: on exit status zero the  *)
(* original file is replaced by the temporary file; on a non-zero status a *)
(* warning is logged and the original is replaced by the temporary file    *)
(* exactly when the temporary file exists, and is left unchanged when it   *)
(* does not.  In every case strip_metadata returns without raising, also   *)
(* when ffmpeg cannot be spawned.                                          *)
C6_ReplaceRule ==
    [][ /\ pc = "strip_check" =>
              /\ stripRc \in {"zero", "nonzero"}
              /\ stripRc = "zero" =>
                    /\ tmpState # "absent"
                    /\ fileState' = tmpState
                    /\ tmpState' = "absent"
              /\ stripRc = "nonzero" =>
                    /\ lastLog'[1] = "WARNING"
                    /\ IF tmpState # "absent"
                       THEN fileState' = tmpState /\ tmpState' = "absent"
                       ELSE fileState' = fileState /\ tmpState' = tmpState
              /\ pc' = "strip_returned"
              /\ uncaught' = NoExc
        /\ pc = "strip_spawn" =>
              /\ pc' \in {"strip_wait", "strip_returned"}
              /\ uncaught' = NoExc
              /\ fileState' = fileState /\ tmpState' = tmpState
      ]_vars

\* ffmpeg failed but left a partial temporary file, which replaced the
\* original
C6_Witness ==
    /\ pc = "strip_returned"
    /\ stripRc = "nonzero"
    /\ fsAtCall = <<"media", "absent">>
    /\ fileState = "partial"
    /\ tmpState = "absent"
    /\ lastLog[1] = "WARNING"

----------------------------------------------------------------------------
(* C7: strip_metadata called on a path where no file exists logs an        *)
(* error, returns without raising, and leaves the file system as it was.   *)
C7_Claim ==
    (pc = "strip_returned" /\ fsAtCall[1] = "absent") =>
       /\ lastLog[1] = "ERROR"
       /\ uncaught = NoExc
       /\ <<fileState, tmpState>> = fsAtCall

----------------------------------------------------------------------------
(* C8: for an input that does not begin with "http" and ends with ".txt"   *)
(* (in either case), process_input reads the list file and returns its     *)
(* non-blank lines, in file order, each with the surrounding whitespace    *)
(* removed and duplicates kept; a file with no non-blank line ends the     *)
(* run with the empty-list error and exit status 1, and no URL is fetched. *)

IsListInput(s) == s # <<>> /\ s[1] # "h" /\ s[Len(s)] \in {"t", "T"}

IsBlank(l) == \A i \in 1..Len(l) : IsSpace(l[i])

NonBlankLines(f) == {i \in 1..Len(f) : ~IsBlank(f[i])}

\* the index in f of its k-th non-blank line
KthNonBlank(f, k) ==
    CHOOSE i \in NonBlankLines(f) :
        Cardinality({j \in NonBlankLines(f) : j <= i}) = k

IsResolutionOf(us, f) ==
    /\ Len(us) = Cardinality(NonBlankLines(f))
    /\ \A k \in 1..Len(us) : IsStripOf(us[k], f[KthNonBlank(f, k)])

EmptyListError == "Error: The .txt file does not contain valid URLs"

\* C8: a list input resolves to the file's stripped non-blank lines in
\* order; a file without any ends the run before any URL is fetched
C8_ListResolution ==
    /\ (input_str # None /\ IsListInput(input_str) /\ pc # "process_input") =>
          \/ pc \in {"open_list", "read_list", "check_list"}
          \/ pc = "terminated" /\ file = NoLines /\ uncaught = "FileNotFoundError"
          \/ pc = "terminated" /\ file # NoLines /\ Printed(EmptyListError, 0)
    /\ pc = "check_list" => IsResolutionOf(urls_to_process, file)
    /\ Printed(EmptyListError, 0) =>
          /\ file # NoLines
          /\ NonBlankLines(file) = {}
          /\ pc = "terminated"
          /\ exitCode = <<1>>
          /\ started = <<>>
          /\ cur = 0
    /\ (file # NoLines /\ pc \notin {"read_list", "check_list"}) =>
          Printed(EmptyListError, 0)
    /\ pc \in {"read_choice", "check_choice", "loop"} => urls_to_process # <<>>

\* a file whose first line is blank and whose other two lines are the same
\* URL with different surrounding whitespace resolves to that URL twice
C8_Witness ==
    /\ pc = "check_list"
    /\ file = << <<" ", "u">>, <<"u", " ">> >>
    /\ urls_to_process = << <<"u">>, <<"u">> >>

\* a file of blank lines only ended the run
C8_WitnessEmpty ==
    /\ pc = "terminated"
    /\ file = << <<" ">>, <<>> >>
    /\ Printed(EmptyListError, 0)

----------------------------------------------------------------------------
(* C9: when the selector line, with its surrounding whitespace removed,    *)
(* is not one of V, v, A, a, the run prints the usage message and ends     *)
(* with exit status 1; yt-dlp is spawned only in runs whose selector was   *)
(* one of those.                                                           *)

IsValidSelector(line) ==
    \E s \in {<<"V">>, <<"v">>, <<"A">>, <<"a">>} : IsStripOf(s, line)

\* C9: a selector other than V or A ends the run with the usage message
\* and exit status 1, and yt-dlp is never spawned in such a run
C9_InvalidSelector ==
    /\ [][ (pc = "check_choice" /\ ~IsValidSelector(stdinLine)) =>
              /\ pc' = "terminated"
              /\ exitCode' = <<1>>
              /\ printed' = Append(printed, <<"Invalid choice", 0>>)
              /\ started' = <<>>
         ]_vars
    /\ [](Printed("Invalid choice", 0) =>
             pc = "terminated" /\ started = <<>> /\ running = {})
    /\ [](started # <<>> => media_choice_input \in {<<"a">>, <<"v">>})

\* a two-character selector was rejected
C9_Witness ==
    /\ pc = "terminated"
    /\ exitCode = <<1>>
    /\ media_choice_input = <<"v", "a">>
    /\ Printed("Invalid choice", 0)
    /\ started = <<>>

----------------------------------------------------------------------------
(* C10: for every URL whose yt-dlp run exited, once its call is over       *)
(* exactly one outcome message names it: the failed-download message when  *)
(* yt-dlp exited non-zero, the success message when it exited zero and a   *)
(* destination was parsed (strip_metadata was called), whatever            *)
(* strip_metadata then did, and the could-not-locate message otherwise.    *)
C10_OneOutcome ==
    \A i \in 1..Len(urls_to_process) :
        /\ OutcomeCount(i) <= 1
        /\ (FetchStatus(i) # "none" /\ CallOver(i)) =>
              /\ OutcomeCount(i) = 1
              /\ Printed(Success, i) <=> (FetchStatus(i) = "zero" /\ i \in stripCalls)
              /\ Printed(FailedDownload, i) <=> FetchStatus(i) = "nonzero"
              /\ Printed(FailedLocate, i) <=>
                    (FetchStatus(i) = "zero" /\ i \notin stripCalls)

\* ffmpeg could not be spawned for the strip, and success was reported
C10_Witness ==
    /\ pc = "dl_return"
    /\ stripRc = "notfound"
    /\ lastLog[1] = "ERROR"
    /\ Printed(Success, cur)

====
